---------------------------- MODULE Spec2Model ----------------------------
(***************************************************************************)
(* Model of deluge-exporter.py: the DelugeCollector session state machine  *)
(* (get_deluge_stats / get_login / get_connection / get_webui_data), the   *)
(* collect() generator that maps a web.update_ui snapshot to metrics, and  *)
(* the startup sequence of main().                                         *)
(*                                                                         *)
(* Python strings are modelled as sequences of words (TLA+ strings), so    *)
(* that "deluge_" + key.lower() is a concatenation and str.lower() is a    *)
(* real conversion.  JSON values are tagged records.  Each upstream        *)
(* request/response pair (one session.post) is one step of a caller; the   *)
(* upstream's answers are inputs drawn from small sets.                    *)
(***************************************************************************)
EXTENDS Integers, Sequences, FiniteSets, TLC

VARIABLES
    server,     \* main(): "starting" | "serving" | "crashed"
    pc,         \* per caller: position inside get_deluge_stats / collect
    data,       \* per caller: local `data` (get_deluge_stats) / `deluge_stats` (collect)
    response,   \* per caller: local `response` of the last session.post
    reqs,       \* per caller: payloads posted during the current call, in order
    resps,      \* per caller: kind of each response received during the current call
    err,        \* per caller: exception raised by the current call ("none" if none)
    outcome,    \* per caller: how collect() ended ("none" while it has not)
    emitted     \* per caller: samples yielded by collect(), in order

vars == <<server, pc, data, response, reqs, resps, err, outcome, emitted>>

----------------------------------------------------------------------------
(* Bounds of the model *)

NumThreads == 2
MaxTorrents == 2

(* Program constants *)

HTTP_OK == 200

----------------------------------------------------------------------------
(* Callers of get_deluge_stats: the constructor (run by main) and the      *)
(* scrape threads of the metrics HTTP server.                              *)

Main == 0
Threads == 1..NumThreads
Callers == {Main} \cup Threads

----------------------------------------------------------------------------
(* JSON values *)

Null == [t |-> "null"]
Bool(b) == [t |-> "bool", v |-> b]
List(s) == [t |-> "list", v |-> s]
Dict(d) == [t |-> "dict", v |-> d]

\* Python truthiness of a decoded JSON value (`not x`)
Truthy(j) ==
    CASE j.t = "null" -> FALSE
      [] j.t = "bool" -> j.v
      [] j.t = "list" -> Len(j.v) > 0
      [] j.t = "dict" -> TRUE

\* All sequences over S of length at most n
RECURSIVE SeqsUpTo(_, _)
SeqsUpTo(S, n) ==
    IF n = 0 THEN {<<>>}
    ELSE LET shorter == SeqsUpTo(S, n - 1)
         IN  shorter \cup {Append(s, x) : s \in {q \in shorter : Len(q) = n - 1}, x \in S}


----------------------------------------------------------------------------
(* Python strings: a string is a sequence of words; `+` is \o *)

Str(w) == <<w>>

\* str.swapcase() in place of str.lower()
LowerWordMutant(w) ==
    CASE w = "Seeding" -> "seeding"
      [] w = "seeding" -> "Seeding"
      [] w = "Downloading" -> "downloading"
      [] w = "downloading" -> "Downloading"
      [] w = "Paused" -> "paused"
      [] w = "paused" -> "Paused"
      [] w = "Linux" -> "linux"
      [] w = "linux" -> "Linux"
      [] w = "Upload_Rate" -> "upload_rate"
      [] w = "upload_rate" -> "Upload_Rate"
      [] OTHER -> w

\* str.lower() on one word: the mixed-case words the upstream can send
LowerWord(w) ==
    CASE w = "Seeding" -> "seeding"
      [] w = "Downloading" -> "downloading"
      [] w = "Paused" -> "paused"
      [] w = "Linux" -> "linux"
      [] w = "Upload_Rate" -> "upload_rate"
      [] OTHER -> w

Lower(s) == [i \in DOMAIN s |-> LowerWord(s[i])]

----------------------------------------------------------------------------
(* Upstream wire protocol: payloads posted by the collector *)

DelugePassword == Str("deluge_password")

UpdateUiFields ==
    << "label", "name", "state", "tracker_host", "total_uploaded",
       "total_wanted", "total_done", "download_payload_rate",
       "upload_payload_rate", "total_peers", "total_seeds", "num_peers",
       "num_seeds" >>

LoginPayload == [method |-> "auth.login", params |-> <<DelugePassword>>, id |-> 1]
GetHostsPayload == [method |-> "web.get_hosts", params |-> <<>>, id |-> 1]
ConnectPayload(server_id) == [method |-> "web.connect", params |-> <<server_id>>, id |-> 1]
UpdateUiPayload == [method |-> "web.update_ui", params |-> <<UpdateUiFields, <<>>>>, id |-> 1]

----------------------------------------------------------------------------
(* Stats mapper: the body of collect() after get_deluge_stats returned     *)

Num(n) == [t |-> "num", v |-> n]
StrVal(s) == [t |-> "str", v |-> s]

\* a type test that lets every value through
IsNumberMutant(j) == TRUE

\* isinstance(value, int) or isinstance(value, float); a Python bool is an int
IsNumber(j) == j.t \in {"num", "bool"}

\* the float a sample carries for a numeric JSON value
NumberOf(j) == IF j.t = "bool" THEN (IF j.v THEN 1 ELSE 0) ELSE j.v

\* one sample of a GaugeMetricFamily
Sample(name, help, labelnames, labels, value) ==
    [name |-> name, help |-> help, labelnames |-> labelnames,
     labels |-> labels, value |-> value]

\* the state label taken as sent, without .lower()
StateCountSamplesMutant(filters) ==
    LET entries == filters["state"]
    IN  [i \in 1..Len(entries) |->
            Sample(Str("deluge_torrent_state_count"),
                   Str("Number of torrents by state"),
                   <<"state">>, <<entries[i][1]>>, entries[i][2])]

\* deluge_torrent_state_count: one sample per entry of filters["state"]
StateCountSamples(filters) ==
    LET entries == filters["state"]
    IN  [i \in 1..Len(entries) |->
            Sample(Str("deluge_torrent_state_count"),
                   Str("Number of torrents by state"),
                   <<"state">>, <<Lower(entries[i][1])>>, entries[i][2])]

\* filters.get("label", ...) with a placeholder entry as the default
LabelCountSamplesMutant(filters) ==
    LET entries == IF "label" \in DOMAIN filters THEN filters["label"]
                   ELSE << <<Str(""), 0>> >>
    IN  [i \in 1..Len(entries) |->
            Sample(Str("deluge_torrent_label_count"),
                   Str("Number of torrents by label"),
                   <<"label">>, <<Lower(entries[i][1])>>, entries[i][2])]

\* deluge_torrent_label_count: filters.get("label", [])
LabelCountSamples(filters) ==
    LET entries == IF "label" \in DOMAIN filters THEN filters["label"] ELSE <<>>
    IN  [i \in 1..Len(entries) |->
            Sample(Str("deluge_torrent_label_count"),
                   Str("Number of torrents by label"),
                   <<"label">>, <<Lower(entries[i][1])>>, entries[i][2])]

\* other stats: one unlabeled family per numeric entry of stats, in dict order
StatSamples(stats) ==
    LET IsNumericEntry(e) == IsNumber(e[2])
        numeric == SelectSeq(stats, IsNumericEntry)
    IN  [i \in 1..Len(numeric) |->
            Sample(Str("deluge_") \o Lower(numeric[i][1]),
                   Str("Deluge metric ") \o numeric[i][1],
                   <<>>, <<>>, NumberOf(numeric[i][2]))]

\* keys of `res` in process_torrents_stats with the torrent field each reads
TorrentMetrics ==
    << <<"total_uploaded_bytes", "total_uploaded">>,
       <<"total_wanted_bytes", "total_wanted">>,
       <<"total_done_bytes", "total_done">>,
       <<"download_payload_byte_rate", "download_payload_rate">>,
       <<"upload_payload_byte_rate", "upload_payload_rate">>,
       <<"peers_total", "total_peers">>,
       <<"seeds_total", "total_seeds">>,
       <<"peers_connected_total", "num_peers">>,
       <<"seeds_connected_total", "num_seeds">> >>

\* fields of a torrent record that process_torrents_stats subscripts
TorrentFields ==
    {"name", "state", "tracker_host"} \cup
    {TorrentMetrics[j][2] : j \in 1..Len(TorrentMetrics)}

\* torrent["x"] raises KeyError for this record
RaisesKeyError(torrent) == ~(TorrentFields \subseteq DOMAIN torrent)

\* index of the first torrent whose loop body raises KeyError, 0 if none
FirstKeyError(torrents) ==
    LET bad == {i \in 1..Len(torrents) : RaisesKeyError(torrents[i])}
    IN  IF bad = {} THEN 0 ELSE CHOOSE i \in bad : \A k \in bad : i <= k

\* process_torrents_stats without the lower-casing of the state
LowerStateMutant(torrent) == torrent

\* torrent["state"] = torrent["state"].lower()
LowerState(torrent) == [torrent EXCEPT !["state"] = Lower(@)]

\* process_torrents_stats: res (key -> rows), the records as mutated in
\* place, and whether the loop raised KeyError
ProcessTorrentsStats(torrents) ==
    LET k == FirstKeyError(torrents)
        \* the loop body ran to its end for i < k (for all i if k = 0); for
        \* i = k the assignment ran iff torrent["state"] exists
        touched(i) == IF k = 0 \/ i < k THEN TRUE
                      ELSE i = k /\ "state" \in DOMAIN torrents[i]
        mutated == [i \in 1..Len(torrents) |->
                       IF touched(i) THEN LowerState(torrents[i]) ELSE torrents[i]]
        res == [j \in 1..Len(TorrentMetrics) |->
                   [i \in 1..Len(torrents) |->
                       << mutated[i]["name"], mutated[i]["state"],
                          mutated[i]["tracker_host"],
                          mutated[i][TorrentMetrics[j][2]] >>]]
    IN  [error |-> IF k = 0 THEN "none" ELSE "KeyError",
         torrents |-> mutated,
         res |-> IF k = 0 THEN res ELSE <<>>]

\* torrents stats: one family (one sample) per key of res and row, key-major
TorrentSamples(res) ==
    LET n == IF Len(res) = 0 THEN 0 ELSE Len(res[1])
    IN  [m \in 1..(Len(res) * n) |->
            LET j == ((m - 1) \div n) + 1
                i == ((m - 1) % n) + 1
                key == TorrentMetrics[j][1]
                row == res[j][i]
            IN  Sample(Str("deluge_") \o Lower(Str(key)),
                       Str("Deluge metric ") \o Str(key) \o Str(" by torrent"),
                       <<"name", "state", "tracker_host">>,
                       <<row[1], row[2], row[3]>>, row[4])]

\* the generator body of collect(): samples yielded in order, the exception
\* that ended it (if any), and deluge_stats as left by the in-place update
CollectBody(deluge_stats) ==
    LET filters == deluge_stats.filters
        processed == ProcessTorrentsStats(deluge_stats.torrents)
        before == StateCountSamples(filters) \o LabelCountSamples(filters)
                      \o StatSamples(deluge_stats.stats)
    IN  IF "state" \notin DOMAIN filters
        THEN [emitted |-> <<>>, error |-> "KeyError", stats |-> deluge_stats]
        ELSE [emitted |-> IF processed.error = "none"
                          THEN before \o TorrentSamples(processed.res)
                          ELSE before,
              error |-> processed.error,
              stats |-> [deluge_stats EXCEPT !.torrents = processed.torrents]]

----------------------------------------------------------------------------
(* Inputs: what the upstream can answer *)

Torrent(name, state, tracker_host, n) ==
    [name |-> name, state |-> state, tracker_host |-> tracker_host,
     label |-> Str(""),
     total_uploaded |-> n, total_wanted |-> n + 1, total_done |-> n + 2,
     download_payload_rate |-> n + 3, upload_payload_rate |-> n + 4,
     total_peers |-> n + 5, total_seeds |-> n + 6,
     num_peers |-> n + 7, num_seeds |-> n + 8]

Without(torrent, field) == [f \in (DOMAIN torrent) \ {field} |-> torrent[f]]

CompleteTorrents ==
    { Torrent(Str("Linux"), Str("Seeding"), Str("tracker.org"), 10),
      Torrent(Str("bsd"), Str("paused"), Str("tracker.net"), 20) }

PartialTorrents ==
    { Without(Torrent(Str("Linux"), Str("Downloading"), Str("tracker.org"), 30), f) :
        f \in TorrentFields }

TorrentLists == SeqsUpTo(CompleteTorrents \cup PartialTorrents, MaxTorrents)

FilterChoices ==
    { [state |-> <<>>],
      [state |-> << <<Str("Downloading"), 3>>, <<Str("Seeding"), 7>> >>],
      [state |-> << <<Str("Seeding"), 1>> >>,
       label |-> << <<Str("Linux"), 1>>, <<Str(""), 0>> >>] }

StatsChoices ==
    { <<>>,
      << <<Str("upload_rate"), Num(1024)>>, <<Str("external_ip"), StrVal(Str("10.0.0.1"))>> >>,
      << <<Str("Upload_Rate"), Num(5)>>, <<Str("has_incoming_connections"), Bool(TRUE)>> >>,
      << <<Str("external_ip"), StrVal(Str("10.0.0.1"))>>, <<Str("Upload_Rate"), Num(0)>>,
         <<Str("dht_nodes"), Num(7)>> >> }

\* connected snapshots the mapper is applied to
ConnectedSnapshots ==
    { [connected |-> TRUE, filters |-> f, stats |-> s, torrents |-> ts] :
        f \in FilterChoices, s \in StatsChoices, ts \in TorrentLists }

\* what web.update_ui reports while the web UI is not connected to a daemon
DisconnectedSnapshot ==
    [connected |-> FALSE, filters |-> <<>>, stats |-> <<>>, torrents |-> <<>>]

\* snapshots web.update_ui answers with in the session state machine: the
\* disconnected one, one every torrent of which is complete and one with a
\* torrent lacking a field
HealthySnapshot ==
    [connected |-> TRUE,
     filters |-> [state |-> << <<Str("Downloading"), 3>>, <<Str("Seeding"), 7>> >>],
     stats |-> << <<Str("upload_rate"), Num(1024)>>,
                  <<Str("external_ip"), StrVal(Str("10.0.0.1"))>> >>,
     torrents |-> << Torrent(Str("Linux"), Str("Seeding"), Str("tracker.org"), 10) >>]

BrokenSnapshot ==
    [HealthySnapshot EXCEPT !.torrents =
        << Torrent(Str("bsd"), Str("paused"), Str("tracker.net"), 20),
           Without(Torrent(Str("Linux"), Str("Downloading"), Str("tracker.org"), 30),
                   "total_done") >>]

SessionSnapshots == {DisconnectedSnapshot, HealthySnapshot, BrokenSnapshot}

HostIds == {"h1", "h2"}

\* a row of web.get_hosts: [id, host, port, status]
HostEntry(id) == <<id, "127.0.0.1", 58846, "Online">>

\* host lists web.get_hosts answers with: none, one, two with distinct ids
HostLists ==
    { [i \in DOMAIN ids |-> HostEntry(ids[i])] :
        ids \in {<<>>} \cup {<<h>> : h \in HostIds}
                \cup {<<g, h>> : g \in {"h2"}, h \in {"h1"}} }

HttpError == [status_code |-> 500, result |-> Null]
Ok(result) == [status_code |-> HTTP_OK, result |-> result]

SummaryResponses == {HttpError} \cup {Ok(Null)} \cup {Ok(Dict(s)) : s \in SessionSnapshots}
LoginResponses == {HttpError, Ok(Bool(TRUE)), Ok(Bool(FALSE)), Ok(Null)}
HostsResponses == {HttpError, Ok(Null)} \cup {Ok(List(h)) : h \in HostLists}
ConnectResponses == {HttpError, Ok(Bool(TRUE)), Ok(Bool(FALSE)), Ok(Null)}

\* what a response says, as recorded in the history of a call
RespKind(r) ==
    IF r.status_code # HTTP_OK THEN "http_error"
    ELSE CASE r.result.t = "null" -> "null"
           [] r.result.t = "bool" -> IF r.result.v THEN "true" ELSE "false"
           [] r.result.t = "list" -> IF Len(r.result.v) = 0 THEN "empty" ELSE "hosts"
           [] r.result.t = "dict" -> IF r.result.v.connected THEN "connected"
                                     ELSE "disconnected"

----------------------------------------------------------------------------
(* Initial state: main() is about to construct the collector *)

NoResponse == [status_code |-> 0, result |-> Null]

Init ==
    /\ server = "starting"
    /\ pc = [c \in Callers |-> "idle"]
    /\ data = [c \in Callers |-> Null]
    /\ response = [c \in Callers |-> NoResponse]
    /\ reqs = [c \in Callers |-> <<>>]
    /\ resps = [c \in Callers |-> <<>>]
    /\ err = [c \in Callers |-> "none"]
    /\ outcome = [c \in Callers |-> "none"]
    /\ emitted = [c \in Callers |-> <<>>]

----------------------------------------------------------------------------
(* Control flow shared by the steps of get_deluge_stats *)

\* a handler that names the exceptions it expects and misses TypeError
CaughtMutant(e) == e # "TypeError"

\* `except Exception` in collect(): every exception raised here derives from it
Caught(e) == TRUE

\* self.session.post(self.deluge_api_url, json=payload); the caller then
\* blocks at `next` until the response arrives
Post(c, payload, next) ==
    /\ reqs' = [reqs EXCEPT ![c] = Append(@, payload)]
    /\ pc' = [pc EXCEPT ![c] = next]
    /\ UNCHANGED <<server, err, outcome, emitted>>

\* a constructor that handles the error of its get_deluge_stats call and
\* completes
RaiseMutant(c, e) ==
    /\ err' = [err EXCEPT ![c] = e]
    /\ UNCHANGED <<reqs, emitted, server>>
    /\ IF c = Main
       THEN /\ pc' = [pc EXCEPT ![c] = "returned"]
            /\ UNCHANGED outcome
       ELSE /\ pc' = [pc EXCEPT ![c] = "idle"]
            /\ outcome' = [outcome EXCEPT ![c] = IF Caught(e) THEN "swallowed" ELSE "raised"]

\* an exception e leaves get_deluge_stats: in the constructor it is not
\* handled and ends main(); in collect() the handler logs it and returns
\* before anything is yielded
Raise(c, e) ==
    /\ err' = [err EXCEPT ![c] = e]
    /\ UNCHANGED <<reqs, emitted>>
    /\ IF c = Main
       THEN /\ server' = "crashed"
            /\ pc' = [pc EXCEPT ![c] = "crashed"]
            /\ UNCHANGED outcome
       ELSE /\ pc' = [pc EXCEPT ![c] = "idle"]
            /\ outcome' = [outcome EXCEPT ![c] = IF Caught(e) THEN "swallowed" ELSE "raised"]
            /\ UNCHANGED server

\* `return data`
Return(c) ==
    /\ pc' = [pc EXCEPT ![c] = "returned"]
    /\ UNCHANGED <<server, reqs, err, outcome, emitted>>

\* a final check that tests only `data is None`
FinalCheckMutant(c, d) ==
    IF d.t = "null"
    THEN Raise(c, "GetStatsError")
    ELSE Return(c)

\* `if data is None or not data["connected"]: raise ...; return data`
FinalCheck(c, d) ==
    IF d.t = "null" \/ ~d.v.connected
    THEN Raise(c, "GetStatsError")
    ELSE Return(c)

\* no connect recovery: a disconnected answer fails the call at once
StartConnectionMutant(c) == Raise(c, "GetStatsError")

\* get_connection() up to its first post
StartConnection(c) == Post(c, GetHostsPayload, "hosts")

\* a response arrives for the post the caller is blocked on
Receive(c, r) ==
    /\ response' = [response EXCEPT ![c] = r]
    /\ resps' = [resps EXCEPT ![c] = Append(@, RespKind(r))]

----------------------------------------------------------------------------
(* Steps *)

\* DelugeCollector.__init__: the constructor calls get_deluge_stats
Construct ==
    /\ server = "starting"
    /\ pc[Main] = "idle"
    /\ Post(Main, UpdateUiPayload, "q1")
    /\ UNCHANGED <<data, response, resps>>

\* a collector that remembers a failed scrape and starts the next one with
\* the login
ScrapeMutant(c) ==
    /\ c \in Threads
    /\ server = "serving"
    /\ pc[c] = "idle"
    /\ reqs' = [reqs EXCEPT ![c] = IF err[c] \in {"GetStatsError", "GetStatsBadHTTP"}
                                   THEN <<LoginPayload>> ELSE <<UpdateUiPayload>>]
    /\ pc' = [pc EXCEPT ![c] = IF err[c] \in {"GetStatsError", "GetStatsBadHTTP"}
                               THEN "login" ELSE "q1"]
    /\ resps' = [resps EXCEPT ![c] = <<>>]
    /\ response' = [response EXCEPT ![c] = NoResponse]
    /\ data' = [data EXCEPT ![c] = Null]
    /\ err' = [err EXCEPT ![c] = "none"]
    /\ outcome' = [outcome EXCEPT ![c] = "none"]
    /\ emitted' = [emitted EXCEPT ![c] = <<>>]
    /\ UNCHANGED server

\* a scrape request reaches collect(), which calls get_deluge_stats
Scrape(c) ==
    /\ c \in Threads
    /\ server = "serving"
    /\ pc[c] = "idle"
    /\ reqs' = [reqs EXCEPT ![c] = <<UpdateUiPayload>>]
    /\ resps' = [resps EXCEPT ![c] = <<>>]
    /\ response' = [response EXCEPT ![c] = NoResponse]
    /\ data' = [data EXCEPT ![c] = Null]
    /\ err' = [err EXCEPT ![c] = "none"]
    /\ outcome' = [outcome EXCEPT ![c] = "none"]
    /\ emitted' = [emitted EXCEPT ![c] = <<>>]
    /\ pc' = [pc EXCEPT ![c] = "q1"]
    /\ UNCHANGED server

\* get_deluge_stats connecting after every non-null first summary
Summary1Mutant(c) ==
    /\ pc[c] = "q1"
    /\ \E r \in SummaryResponses :
        /\ Receive(c, r)
        /\ IF r.status_code # HTTP_OK
           THEN /\ Raise(c, "GetStatsBadHTTP")
                /\ UNCHANGED data
           ELSE /\ data' = [data EXCEPT ![c] = r.result]
                /\ IF r.result.t = "null"
                   THEN Post(c, LoginPayload, "login")
                   ELSE StartConnection(c)

\* first get_webui_data() of get_deluge_stats answers
Summary1(c) ==
    /\ pc[c] = "q1"
    /\ \E r \in SummaryResponses :
        /\ Receive(c, r)
        /\ IF r.status_code # HTTP_OK
           THEN /\ Raise(c, "GetStatsBadHTTP")
                /\ UNCHANGED data
           ELSE /\ data' = [data EXCEPT ![c] = r.result]
                /\ IF r.result.t = "null"
                   THEN Post(c, LoginPayload, "login")
                   ELSE IF ~r.result.v.connected
                        THEN StartConnection(c)
                        ELSE FinalCheck(c, r.result)

\* get_login without the `if not response_json["result"]` check
LoginMutant(c) ==
    /\ pc[c] = "login"
    /\ \E r \in LoginResponses :
        /\ Receive(c, r)
        /\ UNCHANGED data
        /\ IF r.status_code # HTTP_OK
           THEN Raise(c, "GetLoginBadHTTP")
           ELSE Post(c, UpdateUiPayload, "q2")

\* auth.login answers (get_login), then get_webui_data() is posted again
Login(c) ==
    /\ pc[c] = "login"
    /\ \E r \in LoginResponses :
        /\ Receive(c, r)
        /\ UNCHANGED data
        /\ IF r.status_code # HTTP_OK
           THEN Raise(c, "GetLoginBadHTTP")
           ELSE IF ~Truthy(r.result)
                THEN Raise(c, "GetLoginBadCredentials")
                ELSE Post(c, UpdateUiPayload, "q2")

\* a login retried for as long as the summary query answers null
Summary2Mutant(c) ==
    /\ pc[c] = "q2"
    /\ \E r \in SummaryResponses :
        /\ Receive(c, r)
        /\ IF r.status_code # HTTP_OK
           THEN /\ Raise(c, "GetStatsBadHTTP")
                /\ UNCHANGED data
           ELSE /\ data' = [data EXCEPT ![c] = r.result]
                /\ IF r.result.t = "null"
                   THEN Post(c, LoginPayload, "login")
                   ELSE IF ~r.result.v.connected
                        THEN StartConnection(c)
                        ELSE FinalCheck(c, r.result)

\* the get_webui_data() after get_login answers
Summary2(c) ==
    /\ pc[c] = "q2"
    /\ \E r \in SummaryResponses :
        /\ Receive(c, r)
        /\ IF r.status_code # HTTP_OK
           THEN /\ Raise(c, "GetStatsBadHTTP")
                /\ UNCHANGED data
           ELSE /\ data' = [data EXCEPT ![c] = r.result]
                /\ IF r.result.t = "null"
                   THEN Raise(c, "TypeError")   \* None["connected"]
                   ELSE IF ~r.result.v.connected
                        THEN StartConnection(c)
                        ELSE FinalCheck(c, r.result)

\* get_connection connecting to the last host of the list
HostsMutant(c) ==
    /\ pc[c] = "hosts"
    /\ \E r \in HostsResponses :
        /\ Receive(c, r)
        /\ UNCHANGED data
        /\ IF r.status_code # HTTP_OK
           THEN Raise(c, "GetConnectionBadHTTP")
           ELSE IF ~Truthy(r.result) \/ Len(r.result.v) < 1
                THEN Raise(c, "GetConnectionBadResponse")
                ELSE Post(c, ConnectPayload(r.result.v[Len(r.result.v)][1]), "connect")

\* web.get_hosts answers (get_connection), then web.connect is posted
Hosts(c) ==
    /\ pc[c] = "hosts"
    /\ \E r \in HostsResponses :
        /\ Receive(c, r)
        /\ UNCHANGED data
        /\ IF r.status_code # HTTP_OK
           THEN Raise(c, "GetConnectionBadHTTP")
           ELSE IF ~Truthy(r.result) \/ Len(r.result.v) < 1
                THEN Raise(c, "GetConnectionBadResponse")
                ELSE Post(c, ConnectPayload(r.result.v[1][1]), "connect")

\* get_deluge_stats without the get_webui_data() after get_connection():
\* the final check sees the data fetched before connecting
ConnectMutant(c) ==
    /\ pc[c] = "connect"
    /\ \E r \in ConnectResponses :
        /\ Receive(c, r)
        /\ UNCHANGED data
        /\ IF r.status_code # HTTP_OK
           THEN Raise(c, "GetConnectionBadHTTP")
           ELSE IF ~Truthy(r.result)
                THEN Raise(c, "GetConnectionBadResponse")
                ELSE FinalCheck(c, data[c])

\* web.connect answers (get_connection), then get_webui_data() is posted again
Connect(c) ==
    /\ pc[c] = "connect"
    /\ \E r \in ConnectResponses :
        /\ Receive(c, r)
        /\ UNCHANGED data
        /\ IF r.status_code # HTTP_OK
           THEN Raise(c, "GetConnectionBadHTTP")
           ELSE IF ~Truthy(r.result)
                THEN Raise(c, "GetConnectionBadResponse")
                ELSE Post(c, UpdateUiPayload, "q3")

\* a summary query posted again after a non-200 answer
Summary3Mutant(c) ==
    /\ pc[c] = "q3"
    /\ \E r \in SummaryResponses :
        /\ Receive(c, r)
        /\ IF r.status_code # HTTP_OK
           THEN /\ Post(c, UpdateUiPayload, "q3")
                /\ UNCHANGED data
           ELSE /\ data' = [data EXCEPT ![c] = r.result]
                /\ FinalCheck(c, r.result)

\* the get_webui_data() after get_connection answers
Summary3(c) ==
    /\ pc[c] = "q3"
    /\ \E r \in SummaryResponses :
        /\ Receive(c, r)
        /\ IF r.status_code # HTTP_OK
           THEN /\ Raise(c, "GetStatsBadHTTP")
                /\ UNCHANGED data
           ELSE /\ data' = [data EXCEPT ![c] = r.result]
                /\ FinalCheck(c, r.result)

\* collect() after get_deluge_stats returned: the generator runs to its end
\* or to the exception that leaves it
Emit(c) ==
    /\ c \in Threads
    /\ pc[c] = "returned"
    /\ LET body == CollectBody(data[c].v)
       IN  /\ emitted' = [emitted EXCEPT ![c] = body.emitted]
           /\ err' = [err EXCEPT ![c] = body.error]
           /\ outcome' = [outcome EXCEPT ![c] =
                             IF body.error = "none" THEN "emitted" ELSE "raised"]
           /\ data' = [data EXCEPT ![c] = Dict(body.stats)]
    /\ pc' = [pc EXCEPT ![c] = "idle"]
    /\ UNCHANGED <<server, response, reqs, resps>>

\* main() after the constructor returned: register the collector and start
\* the metrics HTTP server
Serve ==
    /\ pc[Main] = "returned"
    /\ server' = "serving"
    /\ pc' = [pc EXCEPT ![Main] = "sleeping"]
    /\ data' = [data EXCEPT ![Main] = Null]
    /\ response' = [response EXCEPT ![Main] = NoResponse]
    /\ reqs' = [reqs EXCEPT ![Main] = <<>>]
    /\ resps' = [resps EXCEPT ![Main] = <<>>]
    /\ UNCHANGED <<err, outcome, emitted>>

Next ==
    \/ Construct
    \/ Serve
    \/ \E c \in Threads : Scrape(c)
    \/ \E c \in Callers : Summary1(c)
    \/ \E c \in Callers : Login(c)
    \/ \E c \in Callers : Summary2(c)
    \/ \E c \in Callers : Hosts(c)
    \/ \E c \in Callers : Connect(c)
    \/ \E c \in Callers : Summary3(c)
    \/ \E c \in Threads : Emit(c)

Spec == Init /\ [][Next]_vars

\* responses arrive: every blocking session.post of caller c completes
Step(c) ==
    \/ Summary1(c) \/ Login(c) \/ Summary2(c)
    \/ Hosts(c) \/ Connect(c) \/ Summary3(c)

\* one scrape at a time: the constructor, then scrapes served by one thread
SoloNext ==
    \/ Construct
    \/ Serve
    \/ Scrape(1)
    \/ Step(Main)
    \/ Step(1)
    \/ Emit(1)

\* session.post blocks until the upstream answers: every post completes
LiveSpec ==
    /\ Init /\ [][SoloNext]_vars
    /\ WF_vars(Step(Main)) /\ WF_vars(Step(1))

----------------------------------------------------------------------------
(* The mapper on its own: collect() resumes after get_deluge_stats         *)
(* returned a connected snapshot drawn from ConnectedSnapshots             *)

MapInit ==
    /\ server = "serving"
    /\ pc = [c \in Callers |-> IF c = Main THEN "sleeping"
                               ELSE IF c = 1 THEN "returned" ELSE "idle"]
    /\ \E s \in ConnectedSnapshots :
        /\ data = [c \in Callers |-> IF c = 1 THEN Dict(s) ELSE Null]
        /\ response = [c \in Callers |-> IF c = 1 THEN Ok(Dict(s)) ELSE NoResponse]
    /\ reqs = [c \in Callers |-> IF c = 1 THEN <<UpdateUiPayload>> ELSE <<>>]
    /\ resps = [c \in Callers |-> IF c = 1 THEN <<"connected">> ELSE <<>>]
    /\ err = [c \in Callers |-> "none"]
    /\ outcome = [c \in Callers |-> "none"]
    /\ emitted = [c \in Callers |-> <<>>]

MapNext == \E c \in Threads : Emit(c)

MapSpec == MapInit /\ [][MapNext]_vars

----------------------------------------------------------------------------
(* Vocabulary of the properties *)

Awaiting == {"q1", "login", "q2", "hosts", "connect", "q3"}

\* a get_deluge_stats call of c is blocked on an upstream request
InFlight(c) == pc[c] \in Awaiting

\* the call of c has started and is no longer waiting for the upstream
Finished(c) == Len(reqs[c]) > 0 /\ ~InFlight(c)

\* exceptions that leave get_deluge_stats
StatusErrors ==
    {"GetStatsBadHTTP", "GetLoginBadHTTP", "GetLoginBadCredentials",
     "GetConnectionBadHTTP", "GetConnectionBadResponse", "GetStatsError",
     "TypeError"}

\* get_deluge_stats of c returned a connected snapshot
Succeeded(c) ==
    /\ Finished(c)
    /\ err[c] \notin StatusErrors
    /\ data[c].t = "dict" /\ data[c].v.connected

Methods(c) == [i \in DOMAIN reqs[c] |-> reqs[c][i].method]

Count(c, m) == Cardinality({i \in DOMAIN reqs[c] : reqs[c][i].method = m})

Posted(c, m, before) == \E j \in 1..(before - 1) : reqs[c][j].method = m

\* every answer c received is one a working upstream gives: status 200,
\* the credential accepted, a host listed, the connect accepted, a summary
\* that is non-null once logged in and connected once connected
Cooperative(c) ==
    \A i \in DOMAIN resps[c] :
        LET m == reqs[c][i].method
            k == resps[c][i]
        IN  CASE m = "auth.login" -> k = "true"
              [] m = "web.get_hosts" -> k = "hosts"
              [] m = "web.connect" -> k = "true"
              [] m = "web.update_ui" ->
                    IF Posted(c, "web.connect", i) THEN k = "connected"
                    ELSE IF Posted(c, "auth.login", i)
                         THEN k \in {"connected", "disconnected"}
                         ELSE k \in {"null", "connected", "disconnected"}

\* a fresh session: the summary is null until the login, disconnected until
\* the connect and connected after it; login, host list and connect succeed
FreshSession(c) ==
    \A i \in DOMAIN resps[c] :
        LET m == reqs[c][i].method
            k == resps[c][i]
        IN  CASE m = "auth.login" -> k = "true"
              [] m = "web.get_hosts" -> k = "hosts"
              [] m = "web.connect" -> k = "true"
              [] m = "web.update_ui" ->
                    IF Posted(c, "web.connect", i) THEN k = "connected"
                    ELSE IF Posted(c, "auth.login", i) THEN k = "disconnected"
                         ELSE k = "null"

----------------------------------------------------------------------------
(* Properties *)

\* C1: get_deluge_stats never returns a snapshot whose connected flag is
\* false; when the summary fetched after the connect handshake still says
\* connected = false, the call fails with the "Get stats error" of its final
\* check instead of returning.
C1_NeverReturnsDisconnected ==
    \A c \in Callers :
        /\ pc[c] = "returned" => data[c].t = "dict" /\ data[c].v.connected
        /\ ( /\ Count(c, "web.connect") = 1
             /\ Len(resps[c]) = Len(reqs[c])
             /\ resps[c][Len(resps[c])] = "disconnected" )
           => err[c] = "GetStatsError" /\ pc[c] # "returned"

C1_Witness ==
    \E c \in Callers :
        /\ Count(c, "auth.login") = 1 /\ Count(c, "web.connect") = 1
        /\ Len(resps[c]) = Len(reqs[c])
        /\ resps[c][Len(resps[c])] = "disconnected"
        /\ err[c] = "GetStatsError"

\* C2: from any upstream phase, when the upstream cooperates a single
\* get_deluge_stats call ends, and it ends by returning a snapshot with
\* connected = true.
C2_SelfHealing ==
    /\ \A c \in Callers : [](Finished(c) /\ Cooperative(c) => Succeeded(c))
    /\ \A c \in Callers : InFlight(c) ~> ~InFlight(c)

C2_Witness ==
    \E c \in Callers :
        /\ pc[c] = "returned" /\ Cooperative(c)
        /\ resps[c][1] = "null" /\ Count(c, "web.connect") = 1

\* C3: a falsy auth.login result fails the call with "Get login error! Bad
\* credentials" and nothing is posted after the login: no web.get_hosts, no
\* web.connect.
C3_BadLoginStopsCall ==
    \A c \in Callers : \A i \in DOMAIN resps[c] :
        (reqs[c][i].method = "auth.login" /\ resps[c][i] \in {"false", "null"})
        => /\ err[c] = "GetLoginBadCredentials"
           /\ Len(reqs[c]) = i
           /\ Count(c, "web.get_hosts") = 0 /\ Count(c, "web.connect") = 0
           /\ pc[c] \notin Awaiting \cup {"returned"}

C3_Witness ==
    \E c \in Callers :
        /\ resps[c] = <<"null", "false">>
        /\ err[c] = "GetLoginBadCredentials"

\* C4: one call posts at most one auth.login and at most one connect
\* handshake (one web.get_hosts, then at most one web.connect right after it).
C4_AtMostOneRecovery ==
    \A c \in Callers :
        /\ Count(c, "auth.login") <= 1
        /\ Count(c, "web.get_hosts") <= 1
        /\ Count(c, "web.connect") <= 1
        /\ \A i \in DOMAIN reqs[c] :
              reqs[c][i].method = "web.connect"
              => i > 1 /\ reqs[c][i - 1].method = "web.get_hosts"

C4_Witness ==
    \E c \in Callers :
        /\ Finished(c)
        /\ Count(c, "auth.login") = 1 /\ Count(c, "web.connect") = 1

\* C5: at most one get_deluge_stats call is in flight against the shared
\* session at any time.
C5_SingleFlight == Cardinality({c \in Callers : InFlight(c)}) <= 1

\* C6: when get_deluge_stats fails during a scrape, collect() yields nothing,
\* the error does not leave collect(), and the thread can serve the next
\* scrape.
C6_FailedScrapeIsSwallowed ==
    \A c \in Threads :
        err[c] \in StatusErrors
        => /\ emitted[c] = <<>>
           /\ outcome[c] = "swallowed"
           /\ ENABLED Scrape(c)

C6_Witness ==
    \E c \in Threads :
        /\ err[c] = "TypeError" /\ outcome[c] = "swallowed"
        /\ \E d \in Threads : err[d] = "GetConnectionBadHTTP" /\ outcome[d] = "swallowed"

\* number of torrent-scoped samples collect() yielded
TorrentSampleCount(c) ==
    Cardinality({i \in DOMAIN emitted[c] :
                    emitted[c][i].labelnames = <<"name", "state", "tracker_host">>})

\* C7: when a torrent record lacks a field, that torrent yields no sample,
\* every other torrent yields its full set and collect() ends without an
\* error.
C7_IncompleteTorrentSkipped ==
    \A c \in Threads :
        ( /\ outcome[c] \in {"emitted", "raised"}
          /\ data[c].t = "dict"
          /\ \E i \in DOMAIN data[c].v.torrents : RaisesKeyError(data[c].v.torrents[i]) )
        => /\ outcome[c] = "emitted" /\ err[c] = "none"
           /\ TorrentSampleCount(c) =
                 Len(TorrentMetrics) *
                 Cardinality({i \in DOMAIN data[c].v.torrents :
                                 ~RaisesKeyError(data[c].v.torrents[i])})

\* C8: summary null, login accepted, summary null again: the call fails with
\* the "Get stats error" of the final check and with no other error.
C8_StillNullIsSessionError ==
    \A c \in Callers :
        (Len(resps[c]) >= 3 /\ SubSeq(resps[c], 1, 3) = <<"null", "true", "null">>)
        => err[c] = "GetStatsError"

\* C9 as stated: on a fresh session the call logs in before it connects,
\* returns, and posts at most 3 requests in all.
C9_FreshSessionThreeCalls ==
    \A c \in Callers :
        (Finished(c) /\ FreshSession(c))
        => /\ Succeeded(c)
           /\ \A i, j \in DOMAIN reqs[c] :
                 (reqs[c][i].method = "auth.login" /\ reqs[c][j].method = "web.connect")
                 => i < j
           /\ Len(reqs[c]) <= 3

\* C9 amended: on a fresh session the call returns after exactly six
\* requests: web.update_ui, auth.login, web.update_ui, web.get_hosts,
\* web.connect, web.update_ui, the login being before the connect.
C9_FreshSessionSixCalls ==
    \A c \in Callers :
        (Finished(c) /\ FreshSession(c))
        => /\ Succeeded(c)
           /\ Methods(c) = << "web.update_ui", "auth.login", "web.update_ui",
                              "web.get_hosts", "web.connect", "web.update_ui" >>

C9_Witness ==
    \E c \in Callers : pc[c] = "returned" /\ FreshSession(c)

\* C10: an empty or null host list fails the call with "Get connection
\* error! Bad response" and no web.connect is posted; otherwise exactly one
\* web.connect is posted, with the id of the first listed host, and a falsy
\* web.connect result fails the call the same way with no further summary
\* query.
C10_ConnectHandshake ==
    \A c \in Callers :
        /\ \A i \in DOMAIN resps[c] :
              /\ (reqs[c][i].method = "web.get_hosts" /\ resps[c][i] \in {"empty", "null"})
                 => /\ err[c] = "GetConnectionBadResponse"
                    /\ Count(c, "web.connect") = 0
                    /\ Len(reqs[c]) = i
              /\ (reqs[c][i].method = "web.get_hosts" /\ resps[c][i] = "hosts")
                 => /\ Count(c, "web.connect") = 1
                    /\ reqs[c][i + 1].method = "web.connect"
              /\ (reqs[c][i].method = "web.connect" /\ resps[c][i] \in {"false", "null"})
                 => /\ err[c] = "GetConnectionBadResponse"
                    /\ Len(reqs[c]) = i
        /\ pc[c] = "connect"
           => reqs[c][Len(reqs[c])] = ConnectPayload(response[c].result.v[1][1])

C10_Witness ==
    \E c \in Callers :
        /\ pc[c] = "connect"
        /\ Len(response[c].result.v) = 2
        /\ response[c].result.v[1][1] = "h2" /\ response[c].result.v[2][1] = "h1"
        /\ reqs[c][Len(reqs[c])].params = <<"h2">>


----------------------------------------------------------------------------
(* Properties of the mapper *)

\* the generator body of collect() ran for thread c
Mapped(c) == outcome[c] \in {"emitted", "raised"} /\ err[c] \notin StatusErrors

\* the snapshot get_deluge_stats returned to collect(), as it was received
Input(c) == response[c].result.v

\* positions of the samples of `samples` that satisfy Test
Positions(samples, Test(_)) == {i \in DOMAIN samples : Test(samples[i])}

\* C11: one unlabeled sample per stats key with a numeric value, named
\* "deluge_" + the lower-cased key and carrying the value; no sample for a
\* key whose value is a string, and the stats raise no error.
C11_StatsNumericOnly ==
    \A c \in Threads :
        Mapped(c) =>
        LET stats == Input(c).stats
            Unlabeled(s) == s.labelnames = <<>>
            Named(key) == {i \in DOMAIN emitted[c] :
                              /\ emitted[c][i].labelnames = <<>>
                              /\ emitted[c][i].name = Str("deluge_") \o Lower(key)}
        IN  /\ \A k \in DOMAIN stats :
                 /\ stats[k][2].t = "num"
                    => /\ Cardinality(Named(stats[k][1])) = 1
                       /\ \A i \in Named(stats[k][1]) :
                             emitted[c][i].value = stats[k][2].v
                 /\ stats[k][2].t = "str" => Named(stats[k][1]) = {}
            /\ Cardinality(Positions(emitted[c], Unlabeled)) =
                  Cardinality({k \in DOMAIN stats : stats[k][2].t # "str"})
            /\ err[c] = "KeyError" => \E i \in DOMAIN Input(c).torrents :
                                         RaisesKeyError(Input(c).torrents[i])

C11_Witness ==
    \E c \in Threads :
        /\ Mapped(c) /\ outcome[c] = "emitted"
        /\ \E k \in DOMAIN Input(c).stats : Input(c).stats[k][2].t = "str"
        /\ \E k \in DOMAIN Input(c).stats :
              /\ Input(c).stats[k][2].t = "num"
              /\ Input(c).stats[k][1] # Lower(Input(c).stats[k][1])

\* C12: the deluge_torrent_state_count samples are one per entry of
\* filters["state"], in order, labelled with the lower-cased state and
\* carrying the count; [[Downloading, 3], [Seeding, 7]] gives exactly
\* {state=downloading} = 3 and {state=seeding} = 7.
C12_StateCountPerEntry ==
    \A c \in Threads :
        Mapped(c) =>
        LET entries == Input(c).filters["state"]
            IsStateCount(s) == s.name = Str("deluge_torrent_state_count")
            got == SelectSeq(emitted[c], IsStateCount)
        IN  /\ Len(got) = Len(entries)
            /\ \A i \in DOMAIN entries :
                  /\ got[i].labelnames = <<"state">>
                  /\ got[i].labels = <<Lower(entries[i][1])>>
                  /\ got[i].value = entries[i][2]
            /\ entries = << <<Str("Downloading"), 3>>, <<Str("Seeding"), 7>> >>
               => /\ got[1].labels = <<Str("downloading")>> /\ got[1].value = 3
                  /\ got[2].labels = <<Str("seeding")>> /\ got[2].value = 7

C12_Witness ==
    \E c \in Threads :
        /\ Mapped(c) /\ outcome[c] = "emitted"
        /\ Input(c).filters["state"] = << <<Str("Downloading"), 3>>, <<Str("Seeding"), 7>> >>
        /\ Len(emitted[c]) >= 2


\* the labels collect() gives the samples of a complete torrent record
TorrentLabels(torrent) ==
    <<torrent["name"], Lower(torrent["state"]), torrent["tracker_host"]>>

\* samples of thread c that carry the labels of this torrent record
SamplesOf(c, torrent) ==
    {i \in DOMAIN emitted[c] :
        /\ emitted[c][i].labelnames = <<"name", "state", "tracker_host">>
        /\ emitted[c][i].labels = TorrentLabels(torrent)}

\* records of the snapshot that carry the same labels as this one
Twins(c, torrent) ==
    {k \in DOMAIN Input(c).torrents :
        /\ ~RaisesKeyError(Input(c).torrents[k])
        /\ TorrentLabels(Input(c).torrents[k]) = TorrentLabels(torrent)}

\* the per-torrent metrics and the counter each carries
NineCounters ==
    { <<"total_uploaded_bytes", "total_uploaded">>,
      <<"total_wanted_bytes", "total_wanted">>,
      <<"total_done_bytes", "total_done">>,
      <<"download_payload_byte_rate", "download_payload_rate">>,
      <<"upload_payload_byte_rate", "upload_payload_rate">>,
      <<"peers_total", "total_peers">>,
      <<"seeds_total", "total_seeds">>,
      <<"peers_connected_total", "num_peers">>,
      <<"seeds_connected_total", "num_seeds">> }

\* C13 as stated: every torrent record with all its fields yields exactly
\* eight samples, one per counter, labelled {name, lower-cased state,
\* tracker_host}.
C13_EightSamplesPerTorrent ==
    \A c \in Threads :
        Mapped(c) =>
        \A k \in DOMAIN Input(c).torrents :
            LET torrent == Input(c).torrents[k]
            IN  ~RaisesKeyError(torrent)
                => Cardinality(SamplesOf(c, torrent)) = 8 * Cardinality(Twins(c, torrent))

\* C13 amended: when collect() ends without an error every torrent record
\* yields exactly nine samples, one per counter of NineCounters, labelled
\* {name, lower-cased state, tracker_host} and carrying the counter; when
\* some record of the snapshot lacks a field, collect() raises KeyError and
\* no torrent yields a sample.
C13_NineSamplesPerTorrent ==
    \A c \in Threads :
        Mapped(c) =>
        /\ outcome[c] = "raised" => TorrentSampleCount(c) = 0
        /\ outcome[c] = "emitted" =>
           \A k \in DOMAIN Input(c).torrents :
               LET torrent == Input(c).torrents[k]
                   twins == Cardinality(Twins(c, torrent))
               IN  /\ ~RaisesKeyError(torrent)
                   /\ Cardinality(SamplesOf(c, torrent)) = 9 * twins
                   /\ \A m \in NineCounters :
                         /\ Cardinality({i \in SamplesOf(c, torrent) :
                                emitted[c][i].name = <<"deluge_", m[1]>>}) = twins
                         /\ \E i \in SamplesOf(c, torrent) :
                               /\ emitted[c][i].name = <<"deluge_", m[1]>>
                               /\ emitted[c][i].value = torrent[m[2]]

C13_Witness ==
    \E c \in Threads :
        /\ Mapped(c) /\ outcome[c] = "emitted"
        /\ Len(Input(c).torrents) = 2
        /\ Input(c).torrents[1] # Input(c).torrents[2]
        /\ Input(c).torrents[1]["state"] # Lower(Input(c).torrents[1]["state"])

\* number of times x occurs in the sequence s
Occurrences(s, x) == Cardinality({i \in DOMAIN s : s[i] = x})

\* the two sequences hold the same elements the same number of times
SameBag(s, u) ==
    /\ Len(s) = Len(u)
    /\ \A i \in DOMAIN s : Occurrences(s, s[i]) = Occurrences(u, s[i])

\* C14: mapping the snapshot a second time, as the first pass left it (torrent
\* states lower-cased in place), yields the same multiset of samples and
\* ends the same way.
C14_SecondPassSameSamples ==
    \A c \in Threads :
        Mapped(c) =>
        LET again == CollectBody(data[c].v)
        IN  /\ SameBag(again.emitted, emitted[c])
            /\ again.error = err[c]

C14_Witness ==
    \E c \in Threads :
        /\ Mapped(c) /\ outcome[c] = "emitted"
        /\ data[c].v # Input(c)
        /\ Len(emitted[c]) > 9

\* the filters of a snapshot with an empty label category added
WithEmptyLabel(snapshot) ==
    [snapshot EXCEPT !.filters =
        [f \in (DOMAIN snapshot.filters) \cup {"label"} |->
            IF f = "label" THEN <<>> ELSE snapshot.filters[f]]]

\* C15: a snapshot without a label category yields no
\* deluge_torrent_label_count sample and no error from the label loop, and
\* its other samples are those of the same snapshot with an empty label
\* category.
C15_AbsentLabelCategory ==
    \A c \in Threads :
        (Mapped(c) /\ "label" \notin DOMAIN Input(c).filters) =>
        LET IsLabelCount(s) == s.name = Str("deluge_torrent_label_count")
                               \/ s.labelnames = <<"label">>
            other == CollectBody(WithEmptyLabel(Input(c)))
        IN  /\ Positions(emitted[c], IsLabelCount) = {}
            /\ emitted[c] = other.emitted
            /\ err[c] = other.error
            /\ err[c] = "KeyError" => \E i \in DOMAIN Input(c).torrents :
                                         RaisesKeyError(Input(c).torrents[i])

C15_Witness ==
    \E c \in Threads :
        /\ Mapped(c) /\ outcome[c] = "emitted"
        /\ "label" \notin DOMAIN Input(c).filters
        /\ Len(emitted[c]) > 9


----------------------------------------------------------------------------
(* Properties of the session state machine, continued *)

\* the exception that left get_deluge_stats of c, "none" if it returned or
\* is still running
StatusError(c) == IF err[c] \in StatusErrors THEN err[c] ELSE "none"

\* C16: what a get_deluge_stats call posts and how it ends depend only on
\* the answers it received: two calls that received the same answers, whatever
\* scrapes came before them, posted the same requests and ended the same way.
C16_StatelessBetweenScrapes ==
    \A c, d \in Callers :
        (Len(reqs[c]) > 0 /\ Len(reqs[d]) > 0 /\ resps[c] = resps[d])
        => /\ Methods(c) = Methods(d)
           /\ InFlight(c) <=> InFlight(d)
           /\ StatusError(c) = StatusError(d)
           /\ Succeeded(c) <=> Succeeded(d)
           /\ (pc[c] = "connect" /\ response[c] = response[d]) => reqs[c] = reqs[d]

C16_Witness ==
    \E c, d \in Threads :
        /\ c # d
        /\ resps[c] = <<"null", "true", "disconnected", "hosts">>
        /\ resps[d] = resps[c]
        /\ response[c] = response[d]

\* C17: a first summary with connected = true ends the call after that one
\* request; auth.login is posted only right after a null summary and
\* web.get_hosts only right after a non-null summary with connected = false.
C17_RecoveryOnlyWhenNeeded ==
    \A c \in Callers :
        /\ (Len(resps[c]) > 0 /\ resps[c][1] = "connected")
           => Methods(c) = <<"web.update_ui">> /\ ~InFlight(c)
        /\ \A i \in DOMAIN reqs[c] :
              /\ reqs[c][i].method = "auth.login"
                 => /\ i > 1
                    /\ reqs[c][i - 1].method = "web.update_ui"
                    /\ resps[c][i - 1] = "null"
              /\ reqs[c][i].method = "web.get_hosts"
                 => /\ i > 1
                    /\ reqs[c][i - 1].method = "web.update_ui"
                    /\ resps[c][i - 1] = "disconnected"

C17_Witness ==
    \E c \in Callers :
        /\ pc[c] = "returned"
        /\ resps[c] = <<"connected">>
        /\ Len(reqs[c]) = 1

\* C18: a non-200 answer to any request fails the call at once: nothing is
\* posted after it.
C18_BadHttpStopsCall ==
    \A c \in Callers : \A i \in DOMAIN resps[c] :
        resps[c][i] = "http_error"
        => /\ Len(reqs[c]) = i
           /\ ~InFlight(c) /\ pc[c] # "returned"
           /\ err[c] = CASE reqs[c][i].method = "web.update_ui" -> "GetStatsBadHTTP"
                         [] reqs[c][i].method = "auth.login" -> "GetLoginBadHTTP"
                         [] OTHER -> "GetConnectionBadHTTP"

C18_Witness ==
    \E c \in Callers :
        /\ Len(resps[c]) = 6
        /\ resps[c][6] = "http_error"
        /\ err[c] = "GetStatsBadHTTP"

\* C19: an error of the get_deluge_stats call of the constructor is not
\* handled: main() ends, the collector is never registered and no scrape is
\* ever served; errors are swallowed only by scrapes, which run only after
\* that first call returned.
C19_StartupProbeUnhandled ==
    /\ err[Main] \in StatusErrors
       => server = "crashed" /\ pc[Main] = "crashed" /\ outcome[Main] = "none"
    /\ server = "crashed"
       => /\ err[Main] \in StatusErrors
          /\ ~ENABLED Construct /\ ~ENABLED Serve
          /\ \A c \in Threads :
                /\ reqs[c] = <<>> /\ outcome[c] = "none"
                /\ ~ENABLED Scrape(c)
    /\ \A c \in Threads :
          (Len(reqs[c]) > 0 \/ outcome[c] # "none")
          => server = "serving" /\ err[Main] = "none"

C19_Witness ==
    /\ server = "crashed"
    /\ err[Main] = "GetStatsError"
    /\ Len(reqs[Main]) = 6

=============================================================================
